---- MODULE Spec2Model ----
(***************************************************************************)
(* Model of solana-spl-holder (server/main.go): the periodic sync worker   *)
(* that mirrors SPL token accounts into the MariaDB table `holder`, the    *)
(* holder state update endpoint and the registry table `spl`.              *)
(*                                                                         *)
(* The database is modelled by what the statements of main.go do under     *)
(* InnoDB: a unique key on (mint_address, pubkey) compared with the        *)
(* case-insensitive collation of the table, row locks held by a            *)
(* transaction until it ends, DECIMAL columns that round what they store.  *)
(***************************************************************************)
EXTENDS Integers, Sequences, FiniteSets, TLC

(***************************************************************************)
(* Bounds of the model.                                                    *)
(***************************************************************************)
MaxTime == 1
MaxRuns == 2
MaxClients == 2

(***************************************************************************)
(* Program constants.                                                      *)
(***************************************************************************)
UiScale == 6

Runs == 1 .. MaxRuns
Clients == 1 .. MaxClients
Times == 0 .. MaxTime

\* HolderUpdateRequest.Validate: the three accepted state strings.
validStates == {"Uninitialized", "Initialized", "Frozen"}

\* Asset addresses and holder keys of the model. "Pk1" and "pk1" are two
\* different keys that the table collation compares equal.
Mints == {"MintA", "MintB"}
Pubkeys == {"", "Pk1", "pk1", "Pk2", "pk2", "Pk3"}

\* utf8mb4_general_ci: the comparison key of a string (its case folded).
Fold(s) ==
  CASE s = "Pk1" -> "pk1"
    [] s = "Pk2" -> "pk2"
    [] s = "Pk3" -> "pk3"
    [] s = "MintA" -> "minta"
    [] s = "MintB" -> "mintb"
    [] OTHER -> s

\* The unique key unique_holder_mint_pubkey of a row, as the index compares it.
RowKey(row) == <<Fold(row.mint_address), Fold(row.pubkey)>>
ItemKey(mint, item) == <<Fold(mint), Fold(item.pubkey)>>

RECURSIVE Pow10(_)
Pow10(n) == IF n = 0 THEN 1 ELSE 10 * Pow10(n - 1)

\* amount DECIMAL(38,0): the decimal string of the observation is stored as a
\* number; reading the column back yields the canonical digits of that number.
RECURSIVE ParseDecimal(_)
ParseDecimal(digits) ==
  IF Len(digits) = 0 THEN 0
  ELSE 10 * ParseDecimal(SubSeq(digits, 1, Len(digits) - 1)) + digits[Len(digits)]

RECURSIVE FormatDecimal(_)
FormatDecimal(n) ==
  IF n < 10 THEN <<n>> ELSE Append(FormatDecimal(n \div 10), n % 10)

\* ui_amount DECIMAL(38,6): a value is kept with UiScale fractional digits.
\* Values are counted in units of 10^-8 (UiUnit digits), so the column rounds
\* to a multiple of 10^(8-6).
UiUnit == UiScale + 2

RoundUiAmount(u) ==
  LET step == Pow10(UiUnit - UiScale)
  IN ((u + step \div 2) \div step) * step

(***************************************************************************)
(* Observations: the ResultItem values the ledger service may return.      *)
(* amount is the decimal string as a sequence of digits; uiAmount is       *)
(* counted in units of 10^-UiUnit.                                         *)
(***************************************************************************)
Item(pk, ty, st, ta, ac) ==
  [pubkey |-> pk, type |-> ty, lamports |-> ac.lamports, isNative |-> ac.isNative,
   owner |-> ac.owner, state |-> st, amount |-> ta.amount, decimals |-> ta.decimals,
   uiAmount |-> ta.uiAmount, uiAmountString |-> ta.uiAmountString]

TaZero == [amount |-> <<0>>, decimals |-> 6, uiAmount |-> 0, uiAmountString |-> "0"]
TaOne == [amount |-> <<1, 0, 0, 0, 0, 0, 0>>, decimals |-> 6,
          uiAmount |-> 100000000, uiAmountString |-> "1"]
TaFine == [amount |-> <<1, 0, 0, 1, 9, 5>>, decimals |-> 8,
           uiAmount |-> 100195, uiAmountString |-> "0.00100195"]
TaPadded == [amount |-> <<0, 7>>, decimals |-> 0,
             uiAmount |-> 700000000, uiAmountString |-> "7"]

AcctUser == [lamports |-> 2039280, isNative |-> FALSE, owner |-> "Own1"]
AcctNative == [lamports |-> 2136720, isNative |-> TRUE, owner |-> "Own2"]

(***************************************************************************)
(* The statements of the holder store, as functions of the rows they see.  *)
(***************************************************************************)
\* The row an INSERT of the observation creates at time t.
NewRow(mintAddress, item, t) ==
  [mint_address |-> mintAddress, pubkey |-> item.pubkey,
   lamports |-> item.lamports, is_native |-> item.isNative, owner |-> item.owner,
   state |-> item.state, decimals |-> item.decimals,
   amount |-> ParseDecimal(item.amount),
   ui_amount |-> RoundUiAmount(item.uiAmount),
   ui_amount_string |-> item.uiAmountString,
   created_at |-> t, updated_at |-> t]

\* The update clause also assigning created_at.
UpdatedRowTouchingCreated(row, item, t) ==
  [NewRow(row.mint_address, item, t) EXCEPT !.pubkey = row.pubkey]

\* The update clause without ui_amount = VALUES(ui_amount).
UpdatedRowStaleUi(row, item, t) ==
  [NewRow(row.mint_address, item, t) EXCEPT !.pubkey = row.pubkey,
                                            !.created_at = row.created_at,
                                            !.ui_amount = row.ui_amount]

\* The ON DUPLICATE KEY UPDATE clause applied to the existing row.
UpdatedRow(row, item, t) ==
  [row EXCEPT !.lamports = item.lamports, !.is_native = item.isNative,
              !.owner = item.owner, !.state = item.state,
              !.decimals = item.decimals,
              !.amount = ParseDecimal(item.amount),
              !.ui_amount = RoundUiAmount(item.uiAmount),
              !.ui_amount_string = item.uiAmountString,
              !.updated_at = t]

\* upsertHolderMariaDB's validation of its arguments.
UpsertRejects(mintAddress, item) == mintAddress = "" \/ item.pubkey = ""

\* upsertHolderMariaDB without the duplicate-key clause: a plain INSERT.
UpsertAlwaysInsert(rows, mintAddress, item, t) ==
  IF UpsertRejects(mintAddress, item) THEN rows
  ELSE rows \cup {NewRow(mintAddress, item, t)}

\* upsertHolderMariaDB: the rows after the statement, given the rows before.
UpsertHolderMariaDB(rows, mintAddress, item, t) ==
  IF UpsertRejects(mintAddress, item) THEN rows
  ELSE LET dup == {x \in rows : RowKey(x) = ItemKey(mintAddress, item)}
       IN IF dup = {} THEN rows \cup {NewRow(mintAddress, item, t)}
          ELSE (rows \ dup) \cup {UpdatedRow(x, item, t) : x \in dup}

\* Validate checking only that the field is present, as the struct tag
\* `validate:"required"` alone would.
ValidateRequired(state) == state # ""

\* HolderUpdateRequest.Validate: TRUE when the request is accepted.
Validate(state) == state \in validStates

\* The UPDATE without updated_at = CURRENT_TIMESTAMP.
UpdateStateKeepingTime(rows, mintAddress, pubkey, state, t) ==
  LET hit == {x \in rows : RowKey(x) = <<Fold(mintAddress), Fold(pubkey)>>}
  IN (rows \ hit) \cup {[x EXCEPT !.state = state] : x \in hit}

\* The UPDATE also assigning created_at.
UpdateStateTouchingCreated(rows, mintAddress, pubkey, state, t) ==
  LET hit == {x \in rows : RowKey(x) = <<Fold(mintAddress), Fold(pubkey)>>}
  IN (rows \ hit) \cup
       {[x EXCEPT !.state = state, !.updated_at = t, !.created_at = t] : x \in hit}

\* The UPDATE of updateHolderState applied to the rows it sees.
UpdateState(rows, mintAddress, pubkey, state, t) ==
  LET hit == {x \in rows : RowKey(x) = <<Fold(mintAddress), Fold(pubkey)>>}
  IN (rows \ hit) \cup {[x EXCEPT !.state = state, !.updated_at = t] : x \in hit}

\* The row as the API returns it (rows.Scan into Holder): amount is read back
\* as the decimal string of the stored number.
Holder(row) == [row EXCEPT !.amount = FormatDecimal(row.amount)]

\* getAllMintAddresses returns the rows of spl in an order the query leaves open.
Orders(S) ==
  {q \in [1 .. Cardinality(S) -> S] : \A a, b \in 1 .. Cardinality(S) : q[a] = q[b] => a = b}

(***************************************************************************)
(* State.                                                                  *)
(*   spl     the registry table: its rows, symbol and mint address (the    *)
(*           surrogate id and the timestamps of a row are left out)        *)
(*   holder  the committed rows of table holder                            *)
(*   now     CURRENT_TIMESTAMP of the database, in seconds                 *)
(*   run     the worker goroutines: position, batch and open transaction;  *)
(*           upserted holds the positions of the batch's records whose     *)
(*           upsert returned no error (history)                            *)
(*   req     the holder state update request being handled                 *)
(*   resp    the response to the last holder state update request          *)
(*   last    the asset and payload of the last committed batch, and        *)
(*           whether it repeated the batch committed before it (history)   *)
(*   sched   startWorker and the context it shares with its runs: position *)
(*           ("off" where a specification starts the runs itself), whether *)
(*           ticker.C holds a tick, whether the context is cancelled, and  *)
(*           the numbers of ticks delivered and of runs started (history)  *)
(*   client  the registry requests being handled, one per connection, and  *)
(*           the answer to each connection's last request                  *)
(***************************************************************************)
VARIABLES spl, holder, now, run, req, resp, last, sched, client

vars == <<spl, holder, now, run, req, resp, last, sched, client>>

IdleRun ==
  [pc |-> "idle", mints |-> <<>>, i |-> 0, payload |-> <<>>, j |-> 0,
   tx |-> "none", del |-> {}, ins |-> {}, wrote |-> {},
   upsertedCount |-> 0, skippedCount |-> 0, upserted |-> {}, outcome |-> "none"]

IdleReq == [pc |-> "idle", mint |-> "", pubkey |-> "", state |-> ""]
NoResp == [status |-> "none"]
NoLast == [mint |-> "", payload |-> <<>>, repeat |-> FALSE]
NoSched == [pc |-> "off", tick |-> FALSE, done |-> FALSE, fired |-> 0, started |-> 0]
IdleClient ==
  [pc |-> "idle", op |-> "none", symbol |-> "", mint |-> "", target |-> "",
   result |-> "none"]

Init ==
  /\ spl = {}
  /\ holder = {}
  /\ now = 0
  /\ run = [r \in Runs |-> IdleRun]
  /\ req = IdleReq
  /\ resp = NoResp
  /\ last = NoLast
  /\ sched = NoSched
  /\ client = [c \in Clients |-> IdleClient]

(***************************************************************************)
(* The open transaction of a worker run. A statement of the transaction    *)
(* sees the committed rows with its own changes applied; the rows it has   *)
(* written stay locked until the transaction ends.                         *)
(***************************************************************************)
View(r) ==
  IF run[r].tx = "active" THEN (holder \ run[r].del) \cup run[r].ins ELSE holder

CurMint(r) == run[r].mints[run[r].i]

\* The INSERT locks the row of its key whether or not it changes a value.
Locked(r) ==
  IF run[r].tx = "active"
  THEN {ItemKey(CurMint(r), run[r].payload[k]) : k \in run[r].upserted}
  ELSE {}

LockedByOther(r, k) == \E o \in Runs \ {r} : k \in Locked(o)

InBatch(r) == run[r].pc = "tx" /\ run[r].j <= Len(run[r].payload)

CurItem(r) == run[r].payload[run[r].j]

\* r is about to execute the INSERT of its current record.
Executes(r) ==
  /\ InBatch(r)
  /\ CurItem(r).type = "account"
  /\ ~UpsertRejects(CurMint(r), CurItem(r))

\* r's INSERT waits for a row lock that o holds.
WaitsFor(r, o) ==
  /\ r # o
  /\ Executes(r)
  /\ ItemKey(CurMint(r), CurItem(r)) \in Locked(o)

RECURSIVE WaitChain(_, _, _)
WaitChain(r, o, n) ==
  \/ WaitsFor(r, o)
  \/ /\ n > 0
     /\ \E m \in Runs \ {r, o} : WaitsFor(r, m) /\ WaitChain(m, o, n - 1)

\* r waits, directly or through others, for a lock held by a run waiting for r.
Deadlocked(r) == \E o \in Runs \ {r} : WaitsFor(r, o) /\ WaitChain(o, r, MaxRuns)

\* fetchAndStoreData returns: the worker goes on to the next asset.
EndAsset(r, how) ==
  run' = [run EXCEPT ![r].pc = "loop", ![r].i = @ + 1, ![r].payload = <<>>,
                     ![r].j = 0, ![r].tx = "none", ![r].del = {}, ![r].ins = {},
                     ![r].wrote = {}, ![r].outcome = how]

(***************************************************************************)
(* worker: one run of the sync task.                                       *)
(***************************************************************************)
\* Where a run begins: with startWorker modelled, once `go worker` has created
\* its goroutine; in a specification that starts the runs itself, at any time.
Entry == IF sched.pc = "off" THEN "idle" ELSE "go"

\* A run that polls a list of addresses kept from earlier runs, not the table.
WorkerStartStale(r) ==
  /\ run[r].pc = Entry
  /\ \E S \in SUBSET Mints \ {{}} : \E q \in Orders(S) :
       run' = [run EXCEPT ![r] = [IdleRun EXCEPT !.pc = "loop", !.mints = q, !.i = 1]]
  /\ UNCHANGED <<spl, holder, now, req, resp, last, sched, client>>

\* getAllMintAddresses succeeds with at least one address.
WorkerStart(r) ==
  /\ run[r].pc = Entry
  /\ spl # {}
  /\ \E q \in Orders(spl) :
       run' = [run EXCEPT ![r] =
                 [IdleRun EXCEPT !.pc = "loop", !.i = 1,
                                 !.mints = [k \in DOMAIN q |-> q[k].mint_address]]]
  /\ UNCHANGED <<spl, holder, now, req, resp, last, sched, client>>

\* A failed enumeration that ends the scheduler with the run.
WorkerNoAssetsFatal(r) ==
  /\ run[r].pc = Entry
  /\ run' = [run EXCEPT ![r] = [IdleRun EXCEPT !.outcome = "enumFailed"]]
  /\ sched' = [sched EXCEPT !.pc = "stopped"]
  /\ UNCHANGED <<spl, holder, now, req, resp, last, client>>

\* getAllMintAddresses fails, or the registry is empty: the run ends at once.
WorkerNoAssets(r) ==
  /\ run[r].pc = Entry
  /\ \E how \in {"enumFailed"} \cup (IF spl = {} THEN {"noAssets"} ELSE {}) :
       run' = [run EXCEPT ![r] = [IdleRun EXCEPT !.outcome = how]]
  /\ UNCHANGED <<spl, holder, now, req, resp, last, sched, client>>

\* The loop over mintAddresses finds the context cancelled: return.
WorkerCancelled(r) ==
  /\ run[r].pc = "loop"
  /\ run[r].i <= Len(run[r].mints)
  /\ sched.done
  /\ run' = [run EXCEPT ![r] = [IdleRun EXCEPT !.outcome = "cancelled"]]
  /\ UNCHANGED <<spl, holder, now, req, resp, last, sched, client>>

\* A loop that sends the next asset's request while the batch of the previous
\* asset is still open.
WorkerLoopPipelined(r) ==
  /\ run[r].pc \in {"loop", "tx"}
  /\ run[r].i + (IF run[r].pc = "tx" THEN 1 ELSE 0) <= Len(run[r].mints)
  /\ ~sched.done
  /\ run' = [run EXCEPT ![r].pc = "fetching", ![r].outcome = "none",
                        ![r].i = @ + (IF run[r].pc = "tx" THEN 1 ELSE 0),
                        ![r].upsertedCount = 0, ![r].skippedCount = 0,
                        ![r].upserted = {}]
  /\ UNCHANGED <<spl, holder, now, req, resp, last, sched, client>>

\* The loop over mintAddresses, the context not cancelled: the next asset's
\* request is sent.
WorkerLoop(r) ==
  /\ run[r].pc = "loop"
  /\ run[r].i <= Len(run[r].mints)
  /\ ~sched.done
  /\ run' = [run EXCEPT ![r].pc = "fetching", ![r].outcome = "none",
                        ![r].upsertedCount = 0, ![r].skippedCount = 0,
                        ![r].upserted = {}]
  /\ UNCHANGED <<spl, holder, now, req, resp, last, sched, client>>

\* A loop that starts over when it is through the list.
WorkerDoneAgain(r) ==
  /\ run[r].pc = "loop"
  /\ run[r].i > Len(run[r].mints)
  /\ run' = [run EXCEPT ![r].i = 1]
  /\ UNCHANGED <<spl, holder, now, req, resp, last, sched, client>>

\* The loop is over: the run ends.
WorkerDone(r) ==
  /\ run[r].pc = "loop"
  /\ run[r].i > Len(run[r].mints)
  /\ run' = [run EXCEPT ![r] = IdleRun]
  /\ UNCHANGED <<spl, holder, now, req, resp, last, sched, client>>

(***************************************************************************)
(* fetchAndStoreData: one asset of a run.                                  *)
(***************************************************************************)
FetchErrors == {"transport", "status", "decode", "rpcError"}

\* A failed fetch that leaves the run at the asset, to fetch it again.
FetchFailRetrying(r) ==
  /\ run[r].pc = "fetching"
  /\ run' = [run EXCEPT ![r].outcome = "fetchFailed"]
  /\ UNCHANGED <<spl, holder, now, req, resp, last, sched, client>>

\* The request fails, the status is not 200, the body does not decode or the
\* envelope carries an error: return.
FetchFail(r) ==
  /\ run[r].pc = "fetching"
  /\ \E e \in FetchErrors : EndAsset(r, "fetchFailed")
  /\ UNCHANGED <<spl, holder, now, req, resp, last, sched, client>>

\* The response has no result: return before any transaction.
FetchEmpty(r) ==
  /\ run[r].pc = "fetching"
  /\ EndAsset(r, "empty")
  /\ UNCHANGED <<spl, holder, now, req, resp, last, sched, client>>

\* The response carries one of the payloads the ledger L holds for the asset
\* and db.BeginTx succeeds. Request and transaction carry the worker's
\* context: once it is cancelled the request fails and BeginTx returns an error.
FetchOk(r, L) ==
  /\ run[r].pc = "fetching"
  /\ ~sched.done
  /\ \E p \in L[CurMint(r)] :
       /\ Len(p) > 0
       /\ run' = [run EXCEPT ![r].pc = "tx", ![r].payload = p, ![r].j = 1,
                             ![r].tx = "active"]
  /\ UNCHANGED <<spl, holder, now, req, resp, last, sched, client>>

\* The response carries a payload and db.BeginTx fails: return.
BeginTxFail(r) ==
  /\ run[r].pc = "fetching"
  /\ EndAsset(r, "beginFailed")
  /\ UNCHANGED <<spl, holder, now, req, resp, last, sched, client>>

\* A record that cannot be stored ending the batch without a commit.
SkipRecordFatal(r) ==
  /\ InBatch(r)
  /\ ~Executes(r)
  /\ EndAsset(r, "aborted")
  /\ UNCHANGED <<spl, holder, now, req, resp, last, sched, client>>

\* A record that is not of type "account", or that upsertHolderMariaDB
\* rejects: counted as skipped.
SkipRecord(r) ==
  /\ InBatch(r)
  /\ ~Executes(r)
  /\ run' = [run EXCEPT ![r].j = @ + 1, ![r].skippedCount = @ + 1]
  /\ UNCHANGED <<spl, holder, now, req, resp, last, sched, client>>

\* The INSERT ... ON DUPLICATE KEY UPDATE succeeds. In an open transaction the
\* change stays pending; after the server has rolled the transaction back
\* (see UpsertDeadlock) the statement commits by itself.
UpsertRecord(r) ==
  /\ Executes(r)
  /\ run[r].tx # "done"
  /\ ~LockedByOther(r, ItemKey(CurMint(r), CurItem(r)))
  /\ LET after == UpsertHolderMariaDB(View(r), CurMint(r), CurItem(r), now)
     IN IF run[r].tx = "active"
        THEN /\ run' = [run EXCEPT ![r].j = @ + 1, ![r].upsertedCount = @ + 1,
                                   ![r].upserted = @ \cup {run[r].j},
                                   ![r].del = holder \ after,
                                   ![r].ins = after \ holder]
             /\ UNCHANGED holder
        ELSE /\ run' = [run EXCEPT ![r].j = @ + 1, ![r].upsertedCount = @ + 1,
                                   ![r].upserted = @ \cup {run[r].j},
                                   ![r].wrote = @ \cup (after \ holder)]
             /\ holder' = after
  /\ UNCHANGED <<spl, now, req, resp, last, sched, client>>

\* The INSERT waits for a row lock until the lock wait times out: the
\* statement fails, the transaction stays open, the record is skipped.
UpsertLockTimeout(r) ==
  /\ Executes(r)
  /\ LockedByOther(r, ItemKey(CurMint(r), CurItem(r)))
  /\ run' = [run EXCEPT ![r].j = @ + 1, ![r].skippedCount = @ + 1]
  /\ UNCHANGED <<spl, holder, now, req, resp, last, sched, client>>

\* The INSERT closes a cycle of lock waits and this transaction is the victim:
\* the server rolls the whole transaction back and the statement fails. The
\* code skips the record and goes on using the connection, now without a
\* transaction.
UpsertDeadlock(r) ==
  /\ Executes(r)
  /\ run[r].tx = "active"
  /\ Deadlocked(r)
  /\ run' = [run EXCEPT ![r].j = @ + 1, ![r].skippedCount = @ + 1,
                        ![r].tx = "rolledback", ![r].del = {}, ![r].ins = {}]
  /\ UNCHANGED <<spl, holder, now, req, resp, last, sched, client>>

\* A commit that replaces the rows of the asset by those of the batch.
CommittedReplacing(r) ==
  {x \in holder : x.mint_address # CurMint(r)} \cup run[r].ins

\* The rows tx.Commit makes visible.
Committed(r) == (holder \ run[r].del) \cup run[r].ins

\* The context of the transaction is cancelled: database/sql rolls the
\* transaction back and closes it.
TxCancelled(r) ==
  /\ run[r].pc = "tx"
  /\ run[r].tx \in {"active", "rolledback"}
  /\ sched.done
  /\ run' = [run EXCEPT ![r].tx = "done", ![r].del = {}, ![r].ins = {}]
  /\ UNCHANGED <<spl, holder, now, req, resp, last, sched, client>>

\* tx.Exec on the closed transaction returns sql.ErrTxDone: the record is
\* skipped.
UpsertTxDone(r) ==
  /\ Executes(r)
  /\ run[r].tx = "done"
  /\ run' = [run EXCEPT ![r].j = @ + 1, ![r].skippedCount = @ + 1]
  /\ UNCHANGED <<spl, holder, now, req, resp, last, sched, client>>

\* tx.Commit succeeds; it returns an error once the context is cancelled.
Commit(r) ==
  /\ run[r].pc = "tx"
  /\ run[r].j > Len(run[r].payload)
  /\ ~sched.done
  /\ holder' = Committed(r)
  /\ EndAsset(r, "committed")
  /\ UNCHANGED <<spl, now, req, resp, last, sched, client>>

\* tx.Commit succeeds; the asset and the payload of the batch are remembered.
CommitNoting(r) ==
  /\ run[r].pc = "tx"
  /\ run[r].j > Len(run[r].payload)
  /\ ~sched.done
  /\ holder' = Committed(r)
  /\ EndAsset(r, "committed")
  /\ last' = [mint |-> CurMint(r), payload |-> run[r].payload,
              repeat |-> last.mint = CurMint(r) /\ last.payload = run[r].payload]
  /\ UNCHANGED <<spl, now, req, resp, sched, client>>

\* tx.Commit fails: the deferred Rollback discards the transaction.
CommitFail(r) ==
  /\ run[r].pc = "tx"
  /\ run[r].j > Len(run[r].payload)
  /\ EndAsset(r, "commitFailed")
  /\ UNCHANGED <<spl, holder, now, req, resp, last, sched, client>>

(***************************************************************************)
(* handleUpdateHolderState and updateHolderState: PUT /holders/{mint}/{pk} *)
(***************************************************************************)
Matching(rows, mintAddress, pubkey) ==
  {x \in rows : RowKey(x) = <<Fold(mintAddress), Fold(pubkey)>>}

\* req.Validate fails: 400 before the store is touched.
SetStateInvalid(m, k, s) ==
  /\ req.pc = "idle"
  /\ ~Validate(s)
  /\ resp' = [status |-> "ValidationError"]
  /\ UNCHANGED <<spl, holder, now, run, req, last, sched, client>>

\* SELECT EXISTS finds no row: 404.
SetStateNotFound(m, k, s) ==
  /\ req.pc = "idle"
  /\ Validate(s)
  /\ Matching(holder, m, k) = {}
  /\ resp' = [status |-> "NotFound"]
  /\ UNCHANGED <<spl, holder, now, run, req, last, sched, client>>

\* SELECT EXISTS finds the row.
SetStateExists(m, k, s) ==
  /\ req.pc = "idle"
  /\ Validate(s)
  /\ Matching(holder, m, k) # {}
  /\ req' = [pc |-> "exists", mint |-> m, pubkey |-> k, state |-> s]
  /\ resp' = NoResp
  /\ UNCHANGED <<spl, holder, now, run, last, sched, client>>

\* The UPDATE runs once no transaction holds the row's lock.
SetStateUpdate ==
  /\ req.pc = "exists"
  /\ \A r \in Runs : <<Fold(req.mint), Fold(req.pubkey)>> \notin Locked(r)
  /\ holder' = UpdateState(holder, req.mint, req.pubkey, req.state, now)
  /\ req' = [req EXCEPT !.pc = "updated"]
  /\ UNCHANGED <<spl, now, run, resp, last, sched, client>>

\* The UPDATE waits for the row's lock until the lock wait times out: 500.
SetStateLockTimeout ==
  /\ req.pc = "exists"
  /\ \E r \in Runs : <<Fold(req.mint), Fold(req.pubkey)>> \in Locked(r)
  /\ req' = IdleReq
  /\ resp' = [status |-> "StorageError"]
  /\ UNCHANGED <<spl, holder, now, run, last, sched, client>>

\* The final SELECT reads the row back: 200 with the record.
SetStateRead ==
  /\ req.pc = "updated"
  /\ \E x \in Matching(holder, req.mint, req.pubkey) :
       resp' = [status |-> "ok"]
  /\ req' = IdleReq
  /\ UNCHANGED <<spl, holder, now, run, last, sched, client>>

(***************************************************************************)
(* The registry collaborator and the database clock.                       *)
(***************************************************************************)
\* A row of table spl.
SplRow(symbol, mintAddress) == [symbol |-> symbol, mint_address |-> mintAddress]

\* The rows WHERE mint_address = ? selects, as the table's collation compares.
SplMatching(rows, mintAddress) ==
  {x \in rows : Fold(x.mint_address) = Fold(mintAddress)}

\* The mint_address column of table spl.
MintAddresses == {x.mint_address : x \in spl}

\* createSPL: the address is not yet in the table.
CreateSPL(m) ==
  /\ SplMatching(spl, m) = {}
  /\ spl' = spl \cup {SplRow("Sym", m)}
  /\ UNCHANGED <<holder, now, run, req, resp, last, sched, client>>

\* deleteSPLByMintAddress: DELETE FROM spl; holder is not touched.
DeleteSPLByMintAddress(m) ==
  /\ SplMatching(spl, m) # {}
  /\ spl' = spl \ SplMatching(spl, m)
  /\ UNCHANGED <<holder, now, run, req, resp, last, sched, client>>

\* A second passes.
Tick ==
  /\ now < MaxTime
  /\ now' = now + 1
  /\ UNCHANGED <<spl, holder, run, req, resp, last, sched, client>>

(***************************************************************************)
(* The modelled ledger: the token accounts of each asset and the payloads  *)
(* the service may return for it. A token account belongs to one asset.    *)
(***************************************************************************)
ObsA == Item("Pk1", "account", "initialized", TaFine, AcctUser)
ObsB == Item("Pk2", "account", "Frozen", TaOne, AcctNative)
ObsB2 == Item("Pk2", "account", "Frozen", TaZero, AcctNative)
ObsNoKey == Item("", "account", "Initialized", TaOne, AcctUser)
ObsMint == Item("Pk1", "mint", "Initialized", TaOne, AcctUser)
ObsC == Item("Pk3", "account", "Initialized", TaOne, AcctUser)

Ledger ==
  [m \in Mints |->
     IF m = "MintA"
     THEN {<<ObsA, ObsB>>, <<ObsNoKey, ObsB2>>, <<ObsMint, ObsB>>}
     ELSE {<<ObsC>>}]

\* The holder state update requests of the model.
Requests ==
  {<<"MintA", "Pk1", "Frozen">>, <<"MintA", "pk2", "Frozen">>,
   <<"MintA", "Pk1", "frozen">>, <<"MintA", "Pk2", "">>,
   <<"MintB", "Pk1", "Frozen">>, <<"MintB", "Pk1", "InvalidState">>}

\* The steps of worker run r that every batch takes.
WorkerStep(r) ==
  \/ WorkerStart(r) \/ WorkerLoop(r) \/ WorkerDone(r)
  \/ UpsertRecord(r) \/ CommitFail(r)

\* The steps of worker run r that end an asset, or a record, early.
WorkerSkip(r) ==
  \/ WorkerNoAssets(r)
  \/ FetchFail(r) \/ FetchEmpty(r) \/ BeginTxFail(r)
  \/ SkipRecord(r)

\* The handling of a holder state update request of Q that passes validation.
SetStateStep(Q) ==
  \/ \E q \in Q : SetStateNotFound(q[1], q[2], q[3]) \/ SetStateExists(q[1], q[2], q[3])
  \/ SetStateUpdate \/ SetStateRead \/ SetStateLockTimeout

(***************************************************************************)
(* Spec: one worker run at a time over two assets, with holder state       *)
(* updates and registry changes interleaved. Timestamps are written and    *)
(* never read by the code; here every statement runs within one second.    *)
(***************************************************************************)
Next ==
  \/ WorkerStep(1)
  \/ WorkerSkip(1)
  \/ FetchOk(1, Ledger)
  \/ Commit(1)
  \/ SetStateStep(Requests)
  \/ \E q \in Requests : SetStateInvalid(q[1], q[2], q[3])
  \/ \E m \in Mints : CreateSPL(m) \/ DeleteSPLByMintAddress(m)

Spec == Init /\ [][Next]_vars

(***************************************************************************)
(* SpecOverlap: tick runs that overlap on one asset, as startWorker starts *)
(* a run on every tick whether or not the earlier ones have ended. The two *)
(* payloads name the same accounts in opposite orders.                     *)
(***************************************************************************)
ObsA2 == Item("pk1", "account", "initialized", TaFine, AcctUser)

LedgerOverlap ==
  [m \in Mints |->
     IF m = "MintA" THEN {<<ObsA, ObsB>>, <<ObsB2, ObsA2>>} ELSE {}]

RequestsOverlap == {<<"MintA", "Pk1", "Frozen">>}

NextOverlap ==
  \/ \E r \in Runs :
       \/ WorkerStep(r)
       \/ FetchOk(r, LedgerOverlap)
       \/ Commit(r)
       \/ UpsertLockTimeout(r)
       \/ UpsertDeadlock(r)
  \/ SetStateStep(RequestsOverlap)
  \/ CreateSPL("MintA")

SpecOverlap == Init /\ [][NextOverlap]_vars

(***************************************************************************)
(* SpecDeadlock: overlapping runs alone, the second payload going on with  *)
(* a third record after the two that cross the first payload.              *)
(***************************************************************************)
LedgerDeadlock ==
  [m \in Mints |->
     IF m = "MintA" THEN {<<ObsA, ObsB>>, <<ObsB2, ObsA2, ObsC>>} ELSE {}]

NextDeadlock ==
  \/ \E r \in Runs :
       \/ WorkerStep(r)
       \/ FetchOk(r, LedgerDeadlock)
       \/ Commit(r)
       \/ UpsertLockTimeout(r)
       \/ UpsertDeadlock(r)
  \/ CreateSPL("MintA")

SpecDeadlock == Init /\ [][NextDeadlock]_vars

(***************************************************************************)
(* SpecSolo: the sync pipeline as the only writer, one run after another,  *)
(* with the clock running.  The payloads cover a repeated payload, a       *)
(* changed amount, a record without key, a record of another type, an      *)
(* amount with a leading zero and two keys the collation compares equal.   *)
(***************************************************************************)
ObsPad == Item("Pk2", "account", "Frozen", TaPadded, AcctNative)
ObsA3 == Item("pk1", "account", "Frozen", TaOne, AcctNative)

LedgerSolo ==
  [m \in Mints |->
     IF m = "MintA"
     THEN {<<ObsA, ObsB>>, <<ObsA, ObsB2>>, <<ObsNoKey, ObsPad>>,
           <<ObsMint, ObsB>>, <<ObsA, ObsA3>>}
     ELSE {<<ObsC>>}]

NextSolo ==
  \/ WorkerStep(1)
  \/ WorkerSkip(1)
  \/ FetchOk(1, LedgerSolo)
  \/ CommitNoting(1)
  \/ \E m \in Mints : CreateSPL(m) \/ DeleteSPLByMintAddress(m)
  \/ Tick

SpecSolo == Init /\ [][NextSolo]_vars

(***************************************************************************)
(* Claims.                                                                 *)
(***************************************************************************)

\* C1: in every reachable state, after any interleaving of sync passes
\* (overlapping runs on the same asset included) and state updates, no two
\* rows of holder share (mint_address, pubkey); the unique key compares the
\* pair under the table collation, so no two rows share it up to case either.
C1_Uniqueness ==
  \A x, y \in holder :
    (RowKey(x) = RowKey(y)
       \/ (x.mint_address = y.mint_address /\ x.pubkey = y.pubkey)) => x = y

\* Two runs have their batch transactions open at once on an asset that has
\* both rows stored, after a state update has succeeded.
C1_Witness ==
  /\ run[1].pc = "tx" /\ run[2].pc = "tx"
  /\ CurMint(1) = CurMint(2)
  /\ Cardinality(holder) = 2
  /\ resp.status = "ok"

\* C2: every row of holder has a state among Uninitialized, Initialized,
\* Frozen; a sync pass stores no row with another state string.
C2_StateInEnum == \A x \in holder : x.state \in validStates

\* C3: a state update request whose state is not exactly one of the three
\* values never reaches the store, and the step that answers it with a
\* validation error leaves every row, updated_at included, as it was.
C3_InvalidStateRejected ==
  [][/\ req'.pc # "idle" => req'.state \in validStates
     /\ (resp'.status = "ValidationError" /\ resp' # resp) => holder' = holder]_vars

\* A request was answered with a validation error while rows are stored.
C3_Witness == resp.status = "ValidationError" /\ holder # {} /\ req.pc = "idle"

\* The step in which run r's tx.Commit succeeds.
CommitStep(r) ==
  run[r].pc = "tx" /\ run'[r].pc = "loop" /\ run'[r].outcome = "committed"

WithoutUpdatedAt(rows) == {[x EXCEPT !.updated_at = 0] : x \in rows}

\* C4: with the sync pipeline as the only writer, a pass that commits the
\* payload the previous committed pass of the same asset had leaves the
\* number of rows and every field of every row as they were, except
\* updated_at, which does not decrease.
C4_Idempotent ==
  [][(CommitStep(1) /\ last.mint = CurMint(1) /\ last.payload = run[1].payload)
       => /\ Cardinality(holder') = Cardinality(holder)
          /\ WithoutUpdatedAt(holder') = WithoutUpdatedAt(holder)
          /\ \A x \in holder, y \in holder' :
               RowKey(x) = RowKey(y) => y.updated_at >= x.updated_at]_vars

\* A pass has repeated the payload of the pass before it, a second later.
C4_Witness ==
  /\ last.repeat
  /\ run[1].outcome = "committed"
  /\ \E x \in holder : x.mint_address = last.mint /\ x.updated_at > x.created_at

\* v is u to six decimal places: a multiple of the sixth place nearest to u.
Rounded(v, u) ==
  LET step == Pow10(UiUnit - UiScale)
  IN v % step = 0 /\ 2 * (v - u) <= step /\ 2 * (u - v) <= step

\* The row holds the values of the observation as the columns keep them:
\* amount as a number, uiAmount to six places.
Mirrors(y, item) ==
  /\ y.lamports = item.lamports /\ y.is_native = item.isNative
  /\ y.owner = item.owner /\ y.state = item.state
  /\ y.decimals = item.decimals
  /\ y.amount = ParseDecimal(item.amount)
  /\ Rounded(y.ui_amount, item.uiAmount)
  /\ y.ui_amount_string = item.uiAmountString

\* The observations of payload p that name a holder: of type "account", with
\* a key, and not followed by a later observation of the same key.
Keyed(p) ==
  {j \in 1 .. Len(p) :
     /\ p[j].type = "account"
     /\ p[j].pubkey # ""
     /\ \A k \in (j + 1) .. Len(p) :
          ~(p[k].type = "account" /\ p[k].pubkey = p[j].pubkey)}

\* The rows stored under exactly the identity (A, key).
RowsOf(rows, A, key) == {y \in rows : y.mint_address = A /\ y.pubkey = key}

\* C5: after a committed pass for asset A with no other writer, every
\* account-kind observation of the payload that names a holder has exactly one
\* row (A, holderKey), holding the observation's values (amount as a number,
\* displayAmount to the six places the column keeps), and from an empty store
\* a payload of two such observations leaves exactly two rows of A.
C5_OneRowPerObservation ==
  [][CommitStep(1)
       => LET p == run[1].payload
              A == CurMint(1)
          IN /\ \A j \in Keyed(p) :
                  /\ Cardinality(RowsOf(holder', A, p[j].pubkey)) = 1
                  /\ \A y \in RowsOf(holder', A, p[j].pubkey) : Mirrors(y, p[j])
             /\ (holder = {} /\ Cardinality(Keyed(p)) = 2)
                  => Cardinality({y \in holder' : y.mint_address = A}) = 2]_vars

\* Payload q has the records of payload p, all naming holders, but for the
\* amount of the record at position c.
ChangedAt(p, q, c) ==
  /\ Len(p) = Len(q) /\ c \in 1 .. Len(p)
  /\ Keyed(p) = 1 .. Len(p) /\ Keyed(q) = 1 .. Len(q)
  /\ \A j \in 1 .. Len(p) : j # c => p[j] = q[j]
  /\ p[c].pubkey = q[c].pubkey
  /\ p[c].amount # q[c].amount

\* What a pass that changed the amount of one record leaves; exact asks the
\* other rows to keep updated_at as well.
C6_Frame(exact) ==
  \A c \in 1 .. Len(run[1].payload) :
    LET q == run[1].payload
        A == CurMint(1)
    IN (/\ CommitStep(1) /\ last.mint = A
        /\ ChangedAt(last.payload, q, c)
        /\ \A j \in 1 .. Len(q) : Cardinality(RowsOf(holder, A, q[j].pubkey)) = 1)
       => /\ Cardinality(holder') = Cardinality(holder)
          /\ \A x \in holder : \E y \in holder' :
               /\ y.mint_address = x.mint_address /\ y.pubkey = x.pubkey
               /\ IF x \in RowsOf(holder, A, q[c].pubkey)
                  THEN /\ y.amount = ParseDecimal(q[c].amount)
                       /\ y.amount # x.amount
                       /\ Rounded(y.ui_amount, q[c].uiAmount)
                       /\ y.updated_at >= x.updated_at /\ y.updated_at <= now
                  ELSE IF exact \/ x.mint_address # A THEN y = x
                  ELSE /\ [y EXCEPT !.updated_at = 0] = [x EXCEPT !.updated_at = 0]
                       /\ y.updated_at >= x.updated_at /\ y.updated_at <= now

\* C6 as claimed: a second pass with the same keys and a changed amount for
\* one of them keeps the row count, makes the changed row show the new amount,
\* uiAmount and time, and leaves the other row untouched.
C6_AsClaimed == [][C6_Frame(TRUE)]_vars

\* C6 amended: the other row keeps every field except updated_at, which the
\* pass sets again.
C6_Amended == [][C6_Frame(FALSE)]_vars

\* The second pass has committed <<ObsA, ObsB2>> after <<ObsA, ObsB>> a second
\* later: the row of Pk2 shows the new amount, the row of Pk1 a new time.
C6_Witness ==
  /\ run[1].outcome = "committed"
  /\ last.payload = <<ObsA, ObsB2>>
  /\ Cardinality(holder) = 2
  /\ \E y \in holder : Mirrors(y, ObsB2) /\ y.updated_at > y.created_at
  /\ \E y \in holder : Mirrors(y, ObsA) /\ y.updated_at > y.created_at

\* C7: every step keeps every row: a row (mint_address, pubkey) of the table
\* is a row of the table after the step, whatever the step is (a pass whose
\* payload leaves the holder out or is empty, a failed fetch, the removal of
\* the asset from spl).
C7_NoRowRemoved ==
  [][\A x \in holder : \E y \in holder' :
       y.mint_address = x.mint_address /\ y.pubkey = x.pubkey]_vars

\* Rows of an asset that is no longer in spl, after a later pass for another
\* asset.
C7_Witness ==
  /\ \E x \in holder : x.mint_address \notin MintAddresses
  /\ spl # {}
  /\ run[1].outcome \in {"committed", "empty", "fetchFailed"}

C9_SucceededPersisted ==
  [][\A r \in Runs :
       CommitStep(r)
       => /\ run[r].upsertedCount + run[r].skippedCount = Len(run[r].payload)
          /\ \A j \in run[r].upserted : \E y \in holder' :
               RowKey(y) = ItemKey(CurMint(r), run[r].payload[j])]_vars

\* C10: when tx.Commit of a batch fails, the table is as it was before the
\* step and holds no row the batch wrote; the run moves on to the next asset.
C10_CommitFailure ==
  [][\A r \in Runs :
       (run[r].pc = "tx" /\ run'[r].outcome = "commitFailed")
       => /\ holder' = holder
          /\ run[r].wrote \cap holder' = {}
          /\ run'[r].pc = "loop" /\ run'[r].i = run[r].i + 1]_vars

(***************************************************************************)
(* apiHandlerMariaDB: GET /holders. The parameters page and limit are the   *)
(* sequences of their characters, sort the sequence of its lexemes. Go's   *)
(* int, 64 bits wide in the build, is IntBits wide here.                   *)
(***************************************************************************)
IntBits == 16
MaxInt == 2 ^ (IntBits - 1) - 1
DefaultLimit == 10
MaxLimit == 1000

DigitChars == {"0", "1", "2", "3", "4", "5", "6", "7", "8", "9"}

DigitVal(c) ==
  CASE c = "0" -> 0 [] c = "1" -> 1 [] c = "2" -> 2 [] c = "3" -> 3
    [] c = "4" -> 4 [] c = "5" -> 5 [] c = "6" -> 6 [] c = "7" -> 7
    [] c = "8" -> 8 [] c = "9" -> 9

\* The magnitude of a digit string, cut off just above the largest int.
RECURSIVE Magnitude(_, _)
Magnitude(s, acc) ==
  IF s = <<>> THEN acc
  ELSE LET next == acc * 10 + DigitVal(Head(s))
       IN Magnitude(Tail(s), IF next > MaxInt + 1 THEN MaxInt + 1 ELSE next)

\* strconv.Atoi with the error dropped: 0 for a string that is no number, the
\* nearest int for a number out of range.
Atoi(s) ==
  LET signed == s # <<>> /\ Head(s) \in {"-", "+"}
      body == IF signed THEN Tail(s) ELSE s
  IN IF body = <<>> \/ \E i \in 1 .. Len(body) : body[i] \notin DigitChars THEN 0
     ELSE LET m == Magnitude(body, 0)
          IN IF signed /\ Head(s) = "-" THEN 0 - m
             ELSE IF m > MaxInt THEN MaxInt ELSE m

\* Go's int arithmetic: the result modulo 2^IntBits, in two's complement.
WrapInt(n) ==
  LET m == n % (2 ^ IntBits)
  IN IF m > MaxInt THEN m - 2 ^ IntBits ELSE m

\* The page the handler uses.
EffectivePage(q) == IF Atoi(q.page) < 1 THEN 1 ELSE Atoi(q.page)

\* The limit the handler uses.
EffectiveLimit(q) ==
  LET l == Atoi(q.limit)
  IN IF l <= 0 THEN DefaultLimit ELSE IF l > MaxLimit THEN MaxLimit ELSE l

Offset(q) == WrapInt((EffectivePage(q) - 1) * EffectiveLimit(q))

\* conds: the hard-wired amount condition, then one per filter given.
Conds(q) ==
  <<"amount > 0">>
    \o (IF q.owner # "" THEN <<"owner = ?">> ELSE <<>>)
    \o (IF q.mint_address # "" THEN <<"mint_address = ?">> ELSE <<>>)

\* args: the values bound to the placeholders.
Args(q) ==
  (IF q.owner # "" THEN <<q.owner>> ELSE <<>>)
    \o (IF q.mint_address # "" THEN <<q.mint_address>> ELSE <<>>)

SortDir(q) ==
  IF q.sort = <<>> THEN "" ELSE IF Head(q.sort) = "-" THEN "DESC" ELSE "ASC"

SortCol(q) ==
  IF q.sort = <<>> THEN <<>> ELSE IF Head(q.sort) = "-" THEN Tail(q.sort) ELSE q.sort

\* baseQuery: the text of the SELECT, by its parts.
BaseQuery(q) ==
  [where |-> Conds(q), orderBy |-> SortCol(q), dir |-> SortDir(q),
   limit |-> EffectiveLimit(q), offset |-> Offset(q)]

\* countQuery: the text of the SELECT COUNT(*).
CountQuery(q) == [where |-> Conds(q)]

\* The rows the WHERE clause keeps; strings compare as the collation says.
Where(rows, q) ==
  {x \in rows :
     /\ x.amount > 0
     /\ q.owner # "" => Fold(x.owner) = Fold(q.owner)
     /\ q.mint_address # "" => Fold(x.mint_address) = Fold(q.mint_address)}

\* The columns of holder the requests sort by.
SortColumns == {"ui_amount", "pubkey", "amount"}

\* The place of a key in the collation's order.
Collate(s) ==
  CASE Fold(s) = "pk1" -> 1 [] Fold(s) = "pk2" -> 2 [] Fold(s) = "pk3" -> 3
    [] OTHER -> 0

SortKey(x, col) ==
  CASE col = "ui_amount" -> x.ui_amount
    [] col = "pubkey" -> Collate(x.pubkey)
    [] col = "amount" -> x.amount

\* The statement is one the server accepts: ORDER BY names a column and
\* OFFSET is not negative.
Accepted(q) ==
  /\ Offset(q) >= 0
  /\ q.sort # <<>> => Len(SortCol(q)) = 1 /\ SortCol(q)[1] \in SortColumns

\* The SELECT without its ORDER BY clause.
Unsorted(rows, q) == Orders(rows)

\* The orders in which the server may return the kept rows: any order
\* without ORDER BY, any order of the rows with equal keys with it.
Sorted(rows, q) ==
  {p \in Orders(rows) :
     q.sort # <<>> =>
       \A i \in 1 .. Len(p) - 1 :
         LET a == SortKey(p[i], SortCol(q)[1])
             b == SortKey(p[i + 1], SortCol(q)[1])
         IN IF SortDir(q) = "DESC" THEN a >= b ELSE a <= b}

\* LIMIT limit OFFSET offset.
PageOf(p, q) ==
  LET from == Offset(q) + 1
      upTo == IF Offset(q) + EffectiveLimit(q) > Len(p) THEN Len(p)
              ELSE Offset(q) + EffectiveLimit(q)
  IN [i \in 1 .. (IF upTo < from THEN 0 ELSE upTo - from + 1) |->
        Holder(p[from + i - 1])]

\* The count query runs; the answer to the request before stays on record.
ListCount(q) ==
  /\ req.pc = "idle"
  /\ req' = [pc |-> "counted", q |-> q, rows |-> holder,
             total |-> Cardinality(Where(holder, q))]
  /\ UNCHANGED <<spl, holder, now, run, resp, last, sched, client>>

\* The server rejects the SELECT: 500.
ListQueryFail ==
  /\ req.pc = "counted"
  /\ ~Accepted(req.q)
  /\ resp' = [status |-> "StorageError", q |-> req.q, text |-> BaseQuery(req.q),
              args |-> Args(req.q)]
  /\ req' = IdleReq
  /\ UNCHANGED <<spl, holder, now, run, last, sched, client>>

\* The SELECT runs and the rows are sent: 200.
ListQuery ==
  /\ req.pc = "counted"
  /\ Accepted(req.q)
  /\ \E p \in Sorted(Where(holder, req.q), req.q) :
       resp' = [status |-> "list", q |-> req.q, text |-> BaseQuery(req.q),
                args |-> Args(req.q), data |-> PageOf(p, req.q),
                total |-> req.total, page |-> EffectivePage(req.q),
                limit |-> EffectiveLimit(req.q), rows |-> holder,
                quiet |-> req.rows = holder]
  /\ req' = IdleReq
  /\ UNCHANGED <<spl, holder, now, run, last, sched, client>>

(***************************************************************************)
(* SpecList: GET /holders requests against a table that one worker run at  *)
(* a time fills: three accounts of MintA, then one of them emptied.        *)
(***************************************************************************)
Query(page, limit, owner, mint, state, sort) ==
  [page |-> page, limit |-> limit, owner |-> owner, mint_address |-> mint,
   state |-> state, sort |-> sort]

LedgerList ==
  [m \in Mints |->
     IF m = "MintA" THEN {<<ObsA, ObsB, ObsC>>, <<ObsB2>>} ELSE {}]

ListRequests ==
  {Query(<<>>, <<>>, "", "", "", <<>>),
   Query(<<"1">>, <<"1">>, "", "", "", <<>>),
   Query(<<"2">>, <<"1">>, "", "", "", <<>>),
   Query(<<"3">>, <<"1">>, "", "", "", <<>>),
   Query(<<"1">>, <<"2">>, "", "", "", <<"ui_amount">>),
   Query(<<"2">>, <<"2">>, "", "", "", <<"ui_amount">>),
   Query(<<>>, <<>>, "", "MintA", "Frozen", <<"-", "ui_amount">>),
   Query(<<>>, <<>>, "", "MintA", "Frozen", <<>>),
   Query(<<>>, <<>>, "", "minta", "", <<>>),
   Query(<<>>, <<>>, "", "MintB", "", <<>>),
   Query(<<>>, <<>>, "Own1", "", "", <<"ui_amount">>),
   Query(<<>>, <<>>, "Own2", "", "", <<"ui_amount">>),
   Query(<<>>, <<>>, "Own1", "MintA", "", <<"-", "pubkey">>),
   Query(<<>>, <<"2">>, "", "", "", <<"pubkey">>),
   Query(<<>>, <<>>, "", "", "", <<"bogus">>),
   Query(<<>>, <<>>, "", "", "", <<"-">>),
   Query(<<"x">>, <<"x">>, "", "", "", <<>>),
   Query(<<"0">>, <<"0">>, "", "", "", <<>>),
   Query(<<"-", "1">>, <<"-", "5">>, "", "", "", <<>>),
   Query(<<"2">>, <<"1", "0", "0", "1">>, "", "", "", <<>>),
   Query(<<"9", "9", "9", "9", "9">>, <<>>, "", "", "", <<>>),
   Query(<<"9", "9", "9", "9", "9", "9">>, <<"9", "9", "9", "9", "9", "9">>, "", "", "", <<>>)}

NextList ==
  \/ WorkerStep(1)
  \/ FetchOk(1, LedgerList)
  \/ Commit(1)
  \/ CreateSPL("MintA")
  \/ \E q \in ListRequests : ListCount(q)
  \/ ListQuery
  \/ ListQueryFail

SpecList == Init /\ [][NextList]_vars

\* C11: a state update with a valid state for an identity (mint_address,
\* pubkey) that has no row never gets past the existence check, so it is
\* answered NotFound, and the step that answers NotFound changes no row.
C11_NotFound ==
  [][/\ (req.pc = "idle" /\ req'.pc = "exists")
          => RowsOf(holder, req'.mint, req'.pubkey) # {}
     /\ (resp'.status = "NotFound" /\ resp' # resp)
          => holder' = holder /\ req' = req]_vars

(***************************************************************************)
(* SpecState: state updates on the rows of one asset while the clock runs; *)
(* the response carries the record the final SELECT reads.                 *)
(***************************************************************************)
\* The final SELECT reads the row back: 200 with the record.
SetStateReadRecord ==
  /\ req.pc = "updated"
  /\ \E x \in Matching(holder, req.mint, req.pubkey) :
       resp' = [status |-> "ok", holder |-> Holder(x)]
  /\ req' = IdleReq
  /\ UNCHANGED <<spl, holder, now, run, last, sched, client>>

LedgerState == [m \in Mints |-> IF m = "MintA" THEN {<<ObsA, ObsB>>} ELSE {}]

RequestsState ==
  {<<"MintA", "Pk1", "Frozen">>, <<"MintA", "pk2", "Initialized">>,
   <<"MintA", "Pk3", "Frozen">>}

NextState ==
  \/ WorkerStep(1)
  \/ FetchOk(1, LedgerState)
  \/ Commit(1)
  \/ CreateSPL("MintA")
  \/ \E q \in RequestsState :
       SetStateNotFound(q[1], q[2], q[3]) \/ SetStateExists(q[1], q[2], q[3])
  \/ SetStateUpdate
  \/ SetStateLockTimeout
  \/ SetStateReadRecord
  \/ Tick

SpecState == Init /\ [][NextState]_vars

Satisfies(x, q) ==
  /\ q.mint_address # "" => x.mint_address = q.mint_address
  /\ q.owner # "" => x.owner = q.owner
  /\ q.state # "" => x.state = q.state

\* The step in which a list request is answered with rows.
ListStep == req.pc = "counted" /\ resp'.status = "list"

\* C13: every row a list request returns satisfies every filter supplied
\* among mint_address, owner and state exactly, and total counts only rows of
\* the table that do.
C13_FiltersApplied ==
  [][ListStep
       => /\ \A i \in DOMAIN resp'.data : Satisfies(resp'.data[i], resp'.q)
          /\ resp'.total <= Cardinality({x \in req.rows : Satisfies(x, resp'.q)})]_vars

\* The sort fields the API documents: ui_amount and pubkey.
AllowedSort == {"ui_amount", "pubkey"}

\* The sort parameter names an allow-listed field, with or without "-".
SortAllowed(q) == Len(SortCol(q)) = 1 /\ SortCol(q)[1] \in AllowedSort

\* Two requests that may differ only in the values of the filters they
\* supply, and in a sort parameter when neither names an allow-listed field.
SameButValues(q1, q2) ==
  /\ q1.page = q2.page /\ q1.limit = q2.limit
  /\ (q1.owner = "") = (q2.owner = "")
  /\ (q1.mint_address = "") = (q2.mint_address = "")
  /\ (q1.state = "") = (q2.state = "")
  /\ IF SortAllowed(q1) \/ SortAllowed(q2) THEN q1.sort = q2.sort ELSE TRUE

\* The step in which the SELECT of a list request has been sent.
ListSent == req.pc = "counted" /\ req'.pc = "idle"

\* C14: the text of the SELECT sent for a list request names in ORDER BY
\* nothing but an allow-listed field, and is the text of every request that
\* differs from this one only in filter values or in a sort parameter outside
\* the allow-list.
C14_QueryText ==
  [][ListSent
       => /\ resp'.text.orderBy # <<>> => SortAllowed(resp'.q)
          /\ \A q2 \in ListRequests :
               SameButValues(resp'.q, q2) => BaseQuery(q2) = resp'.text]_vars

\* C15: a list request whose sort parameter names no allow-listed field is
\* answered with rows, by the query of the same request without the sort
\* parameter.
C15_UnknownSort ==
  [][(ListSent /\ resp'.q.sort # <<>> /\ ~SortAllowed(resp'.q))
       => /\ resp'.status = "list"
          /\ resp'.text = BaseQuery([resp'.q EXCEPT !.sort = <<>>])]_vars

\* C16: in the page of a list request sorted by an allow-listed field, every
\* row and the row after it are in the order of that field, ascending without
\* the prefix "-" and descending with it, whatever filters the request has.
C16_SortedPage ==
  [][(ListStep /\ SortAllowed(resp'.q))
       => \A i \in 1 .. Len(resp'.data) - 1 :
            LET a == SortKey(resp'.data[i], SortCol(resp'.q)[1])
                b == SortKey(resp'.data[i + 1], SortCol(resp'.q)[1])
            IN IF Head(resp'.q.sort) = "-" THEN a >= b ELSE a <= b]_vars

\* A filtered request sorted by -ui_amount has returned three rows, the last
\* with a smaller ui_amount than the one before it.
C16_Witness ==
  /\ resp.status = "list"
  /\ resp.q.sort = <<"-", "ui_amount">> /\ resp.q.mint_address = "MintA"
  /\ Len(resp.data) = 3
  /\ resp.data[2].ui_amount > resp.data[3].ui_amount

\* C17: two pages of one list request (the same filters, sort and limit,
\* different page numbers), answered with no write to the table from the
\* first count to the second SELECT, have no row in common.
C17_PagesDisjoint ==
  [][(/\ ListStep /\ resp.status = "list"
      /\ [resp.q EXCEPT !.page = <<>>] = [resp'.q EXCEPT !.page = <<>>]
      /\ resp.page # resp'.page
      /\ resp.quiet /\ resp'.quiet /\ resp.rows = resp'.rows)
       => \A i \in DOMAIN resp.data : \A j \in DOMAIN resp'.data :
            resp.data[i] # resp'.data[j]]_vars

\* C18: whatever the page and limit parameters of a list request are, the
\* request (here without a sort parameter) is answered with rows, the page
\* reported is at least 1, the limit reported is within 1 .. MaxLimit, and
\* MaxLimit when the parameter is a larger number, and the query runs with
\* that limit and with the offset (page - 1) * limit.
C18_PageAndLimit ==
  [][(ListSent /\ resp'.q.sort = <<>>)
       => /\ resp'.status = "list"
          /\ resp'.page >= 1
          /\ resp'.limit >= 1 /\ resp'.limit <= MaxLimit
          /\ Atoi(resp'.q.limit) > MaxLimit => resp'.limit = MaxLimit
          /\ resp'.text.limit = resp'.limit
          /\ resp'.text.offset = (resp'.page - 1) * resp'.limit]_vars

\* C19: the total of a list request is the number of rows of the table that
\* satisfy the filters supplied, and with no write between the count and the
\* SELECT the page holds min(limit, max(0, total - offset)) rows.
C19_TotalAndPageSize ==
  [][ListStep
       => LET left == resp'.total - resp'.text.offset
              room == IF left < 0 THEN 0 ELSE left
          IN /\ resp'.total = Cardinality({x \in req.rows : Satisfies(x, resp'.q)})
             /\ resp'.quiet
                  => Len(resp'.data) = IF resp'.limit < room THEN resp'.limit ELSE room]_vars

\* C20: a list request without filters counts every row of the table, rows
\* with amount 0 included, and with no write between the count and the SELECT
\* a first page that has room for them returns them all.
C20_NoFilterReturnsAll ==
  [][(/\ ListStep /\ resp'.q.owner = "" /\ resp'.q.mint_address = ""
      /\ resp'.q.state = "")
       => /\ resp'.total = Cardinality(req.rows)
          /\ (resp'.quiet /\ resp'.page = 1 /\ resp'.limit >= Cardinality(holder))
               => \A x \in holder : \E i \in DOMAIN resp'.data :
                    /\ resp'.data[i].mint_address = x.mint_address
                    /\ resp'.data[i].pubkey = x.pubkey]_vars

(***************************************************************************)
(* The page and limit rules of the documentation and of the repository's   *)
(* endpoint test: limit within 1 .. 100, 20 when missing or out of range.  *)
(***************************************************************************)
DocDefaultLimit == 20
DocMaxLimit == 100

\* C21: a list request that is answered with rows reports page 1 when the
\* page parameter is missing or not positive, and reports the default limit
\* DocDefaultLimit when the limit parameter is missing, not positive or above
\* DocMaxLimit; otherwise it reports the parameters.
C21_DocumentedDefaults ==
  [][ListStep
       => LET p == Atoi(resp'.q.page)
              l == Atoi(resp'.q.limit)
          IN /\ resp'.page = IF p < 1 THEN 1 ELSE p
             /\ resp'.limit = IF l <= 0 \/ l > DocMaxLimit THEN DocDefaultLimit
                              ELSE l]_vars

(***************************************************************************)
(* startWorker and run: the scheduler, its ticker and the shutdown signal. *)
(* ticker.C holds one tick; with an interval of ten seconds or more the    *)
(* scheduler has received a tick long before the next one is due.          *)
(***************************************************************************)
MaxTicks == 2

\* The goroutine slot `go worker` takes: the first that is free.
FreeSlot(r) ==
  /\ run[r].pc = "idle"
  /\ \A o \in Runs : o < r => run[o].pc # "idle"

\* `go worker(ctx, rpcURL, db)`: the goroutine exists and has not run yet.
Go(r) == run' = [run EXCEPT ![r].pc = "go"]

\* startWorker without the immediate run: the first run waits for a tick.
StartWorkerTickOnly(r) ==
  /\ sched.pc = "start"
  /\ FreeSlot(r)
  /\ sched' = [sched EXCEPT !.pc = "select"]
  /\ UNCHANGED <<spl, holder, now, run, req, resp, last, client>>

\* startWorker begins: time.NewTicker, then the immediate `go worker`.
StartWorker(r) ==
  /\ sched.pc = "start"
  /\ FreeSlot(r)
  /\ Go(r)
  /\ sched' = [sched EXCEPT !.pc = "select", !.started = @ + 1]
  /\ UNCHANGED <<spl, holder, now, req, resp, last, client>>

\* The interval elapses: the ticker puts a tick into ticker.C.
TimerFire ==
  /\ sched.pc = "select"
  /\ ~sched.tick
  /\ sched.fired < MaxTicks
  /\ sched' = [sched EXCEPT !.tick = TRUE, !.fired = @ + 1]
  /\ UNCHANGED <<spl, holder, now, run, req, resp, last, client>>

\* A variant of the tick case that waits until no run is executing.
SchedTickSingleFlight(r) ==
  /\ sched.pc = "select"
  /\ sched.tick
  /\ \A o \in Runs : run[o].pc = "idle"
  /\ FreeSlot(r)
  /\ Go(r)
  /\ sched' = [sched EXCEPT !.tick = FALSE, !.started = @ + 1]
  /\ UNCHANGED <<spl, holder, now, req, resp, last, client>>

\* select takes `case <-ticker.C`: `go worker`. When the context is cancelled
\* as well, select takes either of the two cases.
SchedTick(r) ==
  /\ sched.pc = "select"
  /\ sched.tick
  /\ FreeSlot(r)
  /\ Go(r)
  /\ sched' = [sched EXCEPT !.tick = FALSE, !.started = @ + 1]
  /\ UNCHANGED <<spl, holder, now, req, resp, last, client>>

\* select takes `case <-ctx.Done()`: startWorker returns.
SchedStop ==
  /\ sched.pc = "select"
  /\ sched.done
  /\ sched' = [sched EXCEPT !.pc = "stopped"]
  /\ UNCHANGED <<spl, holder, now, run, req, resp, last, client>>

\* run receives SIGINT or SIGTERM and calls cancel().
Shutdown ==
  /\ sched.pc \in {"start", "select"}
  /\ ~sched.done
  /\ sched' = [sched EXCEPT !.done = TRUE]
  /\ UNCHANGED <<spl, holder, now, run, req, resp, last, client>>

\* run returns after server.Shutdown: the process ends with its goroutines,
\* and the server discards the transactions of its connections.
Exit ==
  /\ sched.pc \in {"start", "select", "stopped"}
  /\ sched.done
  /\ sched' = [sched EXCEPT !.pc = "exited", !.tick = FALSE]
  /\ run' = [r \in Runs |-> IF run[r].pc = "idle" THEN run[r]
                            ELSE [IdleRun EXCEPT !.outcome = "exited"]]
  /\ UNCHANGED <<spl, holder, now, req, resp, last, client>>

(***************************************************************************)
(* SpecSched: the service from startWorker's first statement to the end of *)
(* the process, with one tracked asset whose payload holds a record        *)
(* without key and an account.                                             *)
(***************************************************************************)
InitSched ==
  /\ spl = {}
  /\ holder = {}
  /\ now = 0
  /\ run = [r \in Runs |-> IdleRun]
  /\ req = IdleReq
  /\ resp = NoResp
  /\ last = NoLast
  /\ sched = [NoSched EXCEPT !.pc = "start"]
  /\ client = [c \in Clients |-> IdleClient]

LedgerSched == [m \in Mints |-> IF m = "MintA" THEN {<<ObsNoKey, ObsA>>} ELSE {}]

NextSched ==
  \/ \E r \in Runs :
       \/ StartWorker(r)
       \/ SchedTick(r)
       \/ WorkerStep(r)
       \/ WorkerNoAssets(r)
       \/ WorkerCancelled(r)
       \/ FetchFail(r)
       \/ FetchOk(r, LedgerSched)
       \/ SkipRecord(r)
       \/ TxCancelled(r)
       \/ UpsertTxDone(r)
       \/ Commit(r)
  \/ TimerFire
  \/ SchedStop
  \/ Shutdown
  \/ Exit
  \/ CreateSPL("MintA")

SpecSched == InitSched /\ [][NextSched]_vars

\* A run that has begun and not ended.
Active(r) == run[r].pc \in {"loop", "fetching", "tx"}

\* C22: whenever ticker.C holds a tick and the scheduler is at its select, the
\* tick can start a run at once, whatever the earlier runs are doing (the
\* model has MaxRuns goroutine slots, so one of them must be free).
C22_NotSingleFlight ==
  (/\ sched.pc = "select" /\ sched.tick
   /\ \E r \in Runs : run[r].pc = "idle")
    => ENABLED (\E r \in Runs : SchedTick(r))

\* Two runs are executing at once, the second started by a tick.
C22_Witness ==
  /\ sched.started >= 2
  /\ \E r, o \in Runs : r # o /\ Active(r) /\ Active(o)

\* C23: once the context is cancelled no step starts a run, and no run goes
\* from its between-asset check to the fetch of a further asset.
C23_ShutdownStopsTicks ==
  [][sched.done
       => /\ sched'.started = sched.started
          /\ \A r \in Runs : run'[r].pc = "go" => run[r].pc = "go"
          /\ \A r \in Runs : run[r].pc = "loop" => run'[r].pc # "fetching"]_vars

\* C24: a fetch in flight can always complete with its payload, the
\* transaction of a batch in flight stays open, and a batch whose records
\* have all been handled can always be committed: the shutdown signal takes
\* none of these steps away.
C24_InFlightNotInterrupted ==
  \A r \in Runs :
    /\ run[r].pc = "fetching" => ENABLED FetchOk(r, LedgerSched)
    /\ run[r].pc = "tx" => run[r].tx = "active"
    /\ (run[r].pc = "tx" /\ run[r].j > Len(run[r].payload)) => ENABLED Commit(r)

\* The outcomes of a run, or of an asset of a run, that are failures.
SyncFailures == {"enumFailed", "fetchFailed", "beginFailed", "commitFailed"}

\* The step ends run r or the asset run r is at.
Ended(r) ==
  /\ run[r].pc \in {"go", "fetching", "tx"}
  /\ run'[r].pc \in {"idle", "loop"}

\* C25: a run whose enumeration fails ends at once, with no asset fetched and
\* no row changed; a step in which an enumeration, a fetch, an upsert or a
\* commit fails leaves the scheduler as it is; and the scheduler leaves its
\* select only after the shutdown signal, so until then every tick starts a run.
C25_FailuresKeepScheduler ==
  /\ [](sched.pc \notin {"start", "select"} => sched.done)
  /\ [][\A r \in Runs :
          /\ (Ended(r) /\ run'[r].outcome = "enumFailed")
               => /\ run[r].pc = "go" /\ run'[r].pc = "idle"
                  /\ holder' = holder
          /\ (\/ Ended(r) /\ run'[r].outcome \in SyncFailures
              \/ run'[r].skippedCount > run[r].skippedCount)
               => sched' = sched]_vars

\* After a run whose enumeration failed, a tick has started the next run in
\* the same goroutine slot while another run's asset has failed to commit.
C25_Witness ==
  /\ ~sched.done
  /\ \E r, o \in Runs :
       /\ run[r].pc = "go" /\ run[r].outcome = "enumFailed"
       /\ run[o].outcome = "commitFailed"

\* C26: before startWorker has begun no run is started and no tick delivered;
\* its first step starts one run, before any tick; from then on, while the
\* scheduler is at its select, the runs started are that one and one for each
\* tick it has received, and every start is the start of exactly one run.
C26_ImmediateThenPerTick ==
  /\ [](/\ sched.pc = "start" => sched.started = 0 /\ sched.fired = 0
        /\ sched.pc = "select"
             => sched.started = 1 + sched.fired - (IF sched.tick THEN 1 ELSE 0))
  /\ [][sched'.started # sched.started
          => /\ sched'.started = sched.started + 1
             /\ sched.pc = "start" \/ (sched.tick /\ ~sched'.tick)
             /\ \E r \in Runs :
                  /\ run[r].pc = "idle" /\ run'[r].pc = "go"
                  /\ \A o \in Runs \ {r} : run'[o] = run[o]]_vars

\* The startup run and a run for each of MaxTicks ticks have been started.
C26_Witness ==
  /\ sched.pc = "select"
  /\ sched.fired = MaxTicks /\ ~sched.tick
  /\ sched.started = MaxTicks + 1

\* C27: the list a run takes when it enumerates the registry holds each
\* address of table spl as it is at that step, once, whatever earlier runs
\* polled; the run then fetches the addresses of its list one after the other
\* and ends when it has gone through all of them.
C27_FreshRegistry ==
  [][\A r \in Runs :
       /\ (run[r].pc = "idle" /\ run'[r].pc = "loop")
            => /\ {run'[r].mints[k] : k \in DOMAIN run'[r].mints} = MintAddresses
               /\ Len(run'[r].mints) = Cardinality(spl)
               /\ run'[r].i = 1
       /\ (run[r].pc = "loop" /\ run'[r].pc = "fetching")
            => /\ run'[r].mints = run[r].mints /\ run'[r].i = run[r].i
               /\ run[r].i \in DOMAIN run[r].mints
       /\ run[r].pc \in {"fetching", "tx"}
            => /\ run'[r].mints = run[r].mints
               /\ \/ run'[r].i = run[r].i /\ run'[r].pc # "loop"
                  \/ run'[r].i = run[r].i + 1 /\ run'[r].pc = "loop"
       /\ (run[r].pc = "loop" /\ run'[r].pc = "idle")
            => run[r].i = Len(run[r].mints) + 1]_vars

\* After a run that stored a row of MintA, MintA has left the registry and
\* MintB has joined it: the next run polls MintB alone; the registry has
\* changed again since.
C27_Witness ==
  /\ run[1].pc = "fetching"
  /\ run[1].mints = <<"MintB">>
  /\ \E x \in holder : x.mint_address = "MintA"
  /\ MintAddresses = {"MintA", "MintB"}

\* C28: a step that changes the stored row of an identity, by a committed
\* sync upsert or by a state update, leaves the row with an updated_at greater
\* than the one it had.
C28_UpdatedAtStrictlyAdvances ==
  [][\A x \in holder : \A y \in holder' :
       (RowKey(x) = RowKey(y) /\ x # y) => y.updated_at > x.updated_at]_vars

\* The rows of the table together with those pending in open transactions.
AllRows == holder \cup UNION {run[r].ins : r \in Runs}

\* C29: a row that a step creates, pending or committed, for an identity the
\* store does not hold has the time of that step as created_at, and no step,
\* sync upsert or state update, changes the created_at of an identity's row.
C29_CreatedAtSetOnce ==
  [][\A y \in UNION {run'[r].ins : r \in Runs} \cup holder' :
       IF \E x \in AllRows : RowKey(x) = RowKey(y)
       THEN \A x \in AllRows : RowKey(x) = RowKey(y) => y.created_at = x.created_at
       ELSE y.created_at = now]_vars

\* The row of Pk2, created by a sync pass, has been set to Initialized by a
\* state update and back to Frozen by a later sync pass, a second after its
\* creation.
C29_Witness ==
  /\ resp.status = "ok"
  /\ resp.holder.pubkey = "Pk2" /\ resp.holder.state = "Initialized"
  /\ \E x \in holder : /\ x.pubkey = "Pk2" /\ x.state = "Frozen"
                        /\ x.created_at = 0 /\ x.updated_at > 0

\* C30: the step that handles a record whose type is not "account" counts it
\* as skipped and does nothing else: no row, stored or pending, is created or
\* changed and the batch goes on with its next record; and when a batch that
\* holds such a record commits, each of its account records that has a key
\* has its row in the table.
C30_NonAccountSkipped ==
  [][\A r \in Runs :
       /\ (InBatch(r) /\ CurItem(r).type # "account" /\ run'[r] # run[r])
            => /\ run'[r] = [run[r] EXCEPT !.j = @ + 1, !.skippedCount = @ + 1]
               /\ holder' = holder
       /\ (/\ CommitStep(r)
           /\ \E k \in DOMAIN run[r].payload : run[r].payload[k].type # "account")
            => \A k \in DOMAIN run[r].payload :
                 LET item == run[r].payload[k]
                 IN (item.type = "account" /\ item.pubkey # "")
                      => \E y \in holder' :
                           /\ RowKey(y) = ItemKey(CurMint(r), item)
                           /\ y.state = item.state
                           /\ y.amount = ParseDecimal(item.amount)]_vars

\* The batch <<ObsMint, ObsB>> has been committed into an empty table: one
\* record skipped, one upserted, the row of ObsB stored and no row for the
\* key the skipped record carries.
C30_Witness ==
  /\ run[1].outcome = "committed"
  /\ run[1].skippedCount = 1 /\ run[1].upsertedCount = 1
  /\ Cardinality(holder) = 1
  /\ \E y \in holder : /\ RowKey(y) = ItemKey("MintA", ObsB)
                        /\ y.amount = ParseDecimal(ObsB.amount)
                        /\ y.amount # ParseDecimal(ObsB2.amount)

(***************************************************************************)
(* The registry endpoints: createSPL, updateSPLByMintAddress and           *)
(* deleteSPLByMintAddress, statement by statement, for requests that       *)
(* arrive on several connections at once. The addresses of Mints stand for *)
(* addresses of 32 characters or more.                                     *)
(***************************************************************************)
\* SPLCreateRequest.Validate and SPLUpdateRequest.Validate.
ValidateSPL(symbol, mintAddress) == symbol # "" /\ mintAddress # ""

\* The request of connection c is answered.
Answer(c, op, symbol, mintAddress, target, result) ==
  client' = [client EXCEPT ![c] =
               [pc |-> "idle", op |-> op, symbol |-> symbol, mint |-> mintAddress,
                target |-> target, result |-> result]]

\* createSPL: req.Validate fails.
CreateSPLInvalid(c, symbol, m) ==
  /\ client[c].pc = "idle"
  /\ ~ValidateSPL(symbol, m)
  /\ Answer(c, "create", symbol, m, "", "rejected")
  /\ UNCHANGED <<spl, holder, now, run, req, resp, last, sched>>

\* createSPL: SELECT COUNT(*) FROM spl WHERE mint_address = ?.
CreateSPLCount(c, symbol, m) ==
  /\ client[c].pc = "idle"
  /\ ValidateSPL(symbol, m)
  /\ IF SplMatching(spl, m) # {}
     THEN Answer(c, "create", symbol, m, "", "rejected")
     ELSE client' = [client EXCEPT ![c] =
                       [pc |-> "insert", op |-> "create", symbol |-> symbol,
                        mint |-> m, target |-> "", result |-> "none"]]
  /\ UNCHANGED <<spl, holder, now, run, req, resp, last, sched>>

\* createSPL: INSERT INTO spl. The key unique_mint_address makes the
\* statement fail when a row with the address has appeared since the count.
CreateSPLInsert(c) ==
  /\ client[c].pc = "insert"
  /\ IF SplMatching(spl, client[c].mint) # {}
     THEN /\ Answer(c, "create", client[c].symbol, client[c].mint, "", "rejected")
          /\ UNCHANGED spl
     ELSE /\ spl' = spl \cup {SplRow(client[c].symbol, client[c].mint)}
          /\ Answer(c, "create", client[c].symbol, client[c].mint, "", "created")
  /\ UNCHANGED <<holder, now, run, req, resp, last, sched>>

\* updateSPLByMintAddress: getSPLByMintAddress looks up the row to update.
UpdateSPLGet(c, old, symbol, m) ==
  /\ client[c].pc = "idle"
  /\ ValidateSPL(symbol, m)
  /\ IF SplMatching(spl, old) = {}
     THEN Answer(c, "update", symbol, m, old, "notFound")
     ELSE client' = [client EXCEPT ![c] =
                       [pc |-> "found", op |-> "update", symbol |-> symbol,
                        mint |-> m, target |-> old, result |-> "none"]]
  /\ UNCHANGED <<spl, holder, now, run, req, resp, last, sched>>

\* The rows WHERE mint_address = ? AND mint_address != ? selects.
UsedByOther(rows, m, old) == SplMatching(rows, m) \ SplMatching(rows, old)

\* updateSPLByMintAddress: SELECT COUNT(*) of the other rows with the address.
UpdateSPLCount(c) ==
  /\ client[c].pc = "found"
  /\ IF UsedByOther(spl, client[c].mint, client[c].target) # {}
     THEN Answer(c, "update", client[c].symbol, client[c].mint, client[c].target,
                 "rejected")
     ELSE client' = [client EXCEPT ![c].pc = "checked"]
  /\ UNCHANGED <<spl, holder, now, run, req, resp, last, sched>>

\* updateSPLByMintAddress: UPDATE spl SET symbol, mint_address, updated_at.
\* The statement fails on the unique key; when no row has the address any
\* more it changes nothing and the handler still answers with the record.
UpdateSPLExec(c) ==
  /\ client[c].pc = "checked"
  /\ LET hit == SplMatching(spl, client[c].target)
     IN IF hit # {} /\ UsedByOther(spl, client[c].mint, client[c].target) # {}
        THEN /\ Answer(c, "update", client[c].symbol, client[c].mint,
                       client[c].target, "rejected")
             /\ UNCHANGED spl
        ELSE /\ spl' = (spl \ hit) \cup
                         {SplRow(client[c].symbol, client[c].mint) : x \in hit}
             /\ Answer(c, "update", client[c].symbol, client[c].mint,
                       client[c].target, "updated")
  /\ UNCHANGED <<holder, now, run, req, resp, last, sched>>

\* deleteSPLByMintAddress: getSPLByMintAddress looks up the row to delete.
DeleteSPLGet(c, m) ==
  /\ client[c].pc = "idle"
  /\ IF SplMatching(spl, m) = {}
     THEN Answer(c, "delete", "", "", m, "notFound")
     ELSE client' = [client EXCEPT ![c] =
                       [pc |-> "deleting", op |-> "delete", symbol |-> "",
                        mint |-> "", target |-> m, result |-> "none"]]
  /\ UNCHANGED <<spl, holder, now, run, req, resp, last, sched>>

\* deleteSPLByMintAddress: DELETE FROM spl; no row affected is an error.
DeleteSPLExec(c) ==
  /\ client[c].pc = "deleting"
  /\ LET hit == SplMatching(spl, client[c].target)
     IN /\ spl' = spl \ hit
        /\ Answer(c, "delete", "", "", client[c].target,
                  IF hit = {} THEN "deleteFailed" ELSE "deleted")
  /\ UNCHANGED <<holder, now, run, req, resp, last, sched>>

(***************************************************************************)
(* SpecRegistry: registry requests on MaxClients connections, among them   *)
(* creates of one address under different symbols and an address that      *)
(* differs from another in case alone.                                     *)
(***************************************************************************)
CreateRequests ==
  {<<"S1", "MintA">>, <<"S2", "MintA">>, <<"S1", "MintB">>, <<"S2", "minta">>,
   <<"", "MintB">>}

UpdateRequests ==
  {<<"MintA", "S3", "MintB">>, <<"MintB", "S3", "MintB">>, <<"MintB", "S3", "MintA">>}

NextRegistry ==
  \E c \in Clients :
    \/ \E q \in CreateRequests : CreateSPLInvalid(c, q[1], q[2]) \/ CreateSPLCount(c, q[1], q[2])
    \/ CreateSPLInsert(c)
    \/ \E q \in UpdateRequests : UpdateSPLGet(c, q[1], q[2], q[3])
    \/ UpdateSPLCount(c)
    \/ UpdateSPLExec(c)
    \/ \E m \in Mints : DeleteSPLGet(c, m)
    \/ DeleteSPLExec(c)

SpecRegistry == Init /\ [][NextRegistry]_vars

\* The step answers the request of connection c.
Answered(c) == client'[c] # client[c] /\ client'[c].pc = "idle"

\* C31: no two rows of table spl have the same mint address; a request that
\* is answered as rejected, or as naming no row, leaves the table as it is; a
\* create is rejected when a row has its address, and an update is rejected
\* when the address it asks for is that of a row that is neither the row it
\* names nor the row an update of that row to the address would leave.
C31_UniqueAssetAddress ==
  /\ [](\A x, y \in spl : x.mint_address = y.mint_address => x = y)
  /\ [][\A c \in Clients :
          Answered(c)
            => LET a == client'[c]
               IN /\ a.result \in {"rejected", "notFound", "deleteFailed"}
                       => spl' = spl
                  /\ (a.op = "create" /\ \E x \in spl : x.mint_address = a.mint)
                       => a.result = "rejected"
                  /\ (/\ a.op = "update"
                      /\ \E x \in spl \ SplMatching(spl, a.target) :
                           x.mint_address = a.mint /\ x.symbol # a.symbol)
                       => a.result \in {"rejected", "notFound"} /\ spl' = spl]_vars

\* The rows after the upserts of the records of payload at the positions of
\* done, from position k on, applied in their order to rows.
RECURSIVE ApplyUpserts(_, _, _, _, _, _)
ApplyUpserts(rows, mintAddress, payload, done, k, t) ==
  IF k > Len(payload) THEN rows
  ELSE ApplyUpserts(IF k \in done
                    THEN UpsertHolderMariaDB(rows, mintAddress, payload[k], t)
                    ELSE rows,
                    mintAddress, payload, done, k + 1, t)

\* C32: when a batch commits, the table becomes what the upserts of the batch
\* that returned without error make of the table as it is at the commit,
\* whatever state updates and other batches were committed since the batch
\* began; and a state update makes of the table what its UPDATE makes of the
\* table as it is at that step. The writes thus take effect in commit order.
C32_CommitOrder ==
  [][/\ \A r \in Runs :
          CommitStep(r)
            => holder' = ApplyUpserts(holder, CurMint(r), run[r].payload,
                                      run[r].upserted, 1, now)
     /\ (req.pc = "exists" /\ req'.pc = "updated")
          => holder' = UpdateState(holder, req.mint, req.pubkey, req.state, now)]_vars

\* The same for the batches whose transaction is still open at the commit.
C32_WhileOpen ==
  [][\A r \in Runs :
       (CommitStep(r) /\ run[r].tx = "active")
         => holder' = ApplyUpserts(holder, CurMint(r), run[r].payload,
                                   run[r].upserted, 1, now)]_vars

\* C33: while a batch is under way the table changes only in the step in which
\* its tx.Commit succeeds, and that step leaves a row for every record whose
\* upsert returned without error: a reader sees none or all of the rows of a
\* batch, and a batch that ends otherwise (cancelled, commit failed) has
\* changed nothing.
C33_BatchAtomic ==
  [][\A r \in Runs :
       (run[r].pc = "tx" /\ run'[r] # run[r] /\ holder' # holder)
       => /\ CommitStep(r)
          /\ \A j \in run[r].upserted : \E y \in holder' :
               RowKey(y) = ItemKey(CurMint(r), run[r].payload[j])]_vars

\* C34: the record a state update is answered with carries the state the
\* request asked for.
C34_ReturnedStateIsRequested ==
  [][(req.pc = "updated" /\ req'.pc = "idle" /\ resp'.status = "ok")
       => resp'.holder.state = req.state]_vars

(***************************************************************************)
(* SpecLive: overlapping worker runs over a registry of one asset, with    *)
(* the steps of each run taken sooner or later. The goroutine of a         *)
(* run is scheduled, the HTTP client has a timeout, and a statement that   *)
(* waits for a row lock returns: with the row, with a lock wait timeout or *)
(* as the victim of a deadlock. The payloads of the one asset name the     *)
(* same keys in the same and in the opposite order.                        *)
(***************************************************************************)
InitLive ==
  /\ spl = {SplRow("Sym", "MintA")}
  /\ holder = {}
  /\ now = 0
  /\ run = [r \in Runs |-> IdleRun]
  /\ req = IdleReq
  /\ resp = NoResp
  /\ last = NoLast
  /\ sched = NoSched
  /\ client = [c \in Clients |-> IdleClient]

\* The responses for the one asset: the same two records in either order.
LedgerLive ==
  [m \in Mints |-> IF m = "MintA" THEN {<<ObsA, ObsB>>, <<ObsB, ObsA>>} ELSE {}]

\* A lock wait without timeout and without deadlock detection.
WaitNeverEnds(r) == FALSE /\ UNCHANGED vars

\* The ways the wait of r's INSERT for a row lock ends with an error.
WaitEnds(r) == UpsertLockTimeout(r) \/ UpsertDeadlock(r)

\* The steps of run r.
RunLive(r) ==
  \/ WorkerStep(r)
  \/ FetchOk(r, LedgerLive)
  \/ Commit(r)
  \/ WaitEnds(r)

NextLive == \E r \in Runs : RunLive(r)

SpecLive == InitLive /\ [][NextLive]_vars /\ \A r \in Runs : WF_vars(RunLive(r))

\* The batch of r has ended: committed or abandoned.
BatchEnded(r) ==
  run[r].pc = "loop" /\ run[r].outcome \in {"committed", "commitFailed"}

\* C35: of two overlapping runs that upsert the same identities, each batch
\* that has begun ends, committed or abandoned, and each run that has begun
\* ends: no run waits for the other forever.
C35_BothComplete ==
  /\ \A r \in Runs : (run[r].pc # "idle") ~> (run[r].pc = "idle")
  /\ [][\A r \in Runs : (run[r].pc = "tx" /\ run'[r].pc # "tx") => BatchEnded(r)']_vars

\* Both runs have ended their batch of MintA, one of them after its INSERT
\* failed while it waited for a row the other had locked.
C35_Witness ==
  /\ \A r \in Runs : BatchEnded(r) /\ run[r].mints[run[r].i - 1] = "MintA"
  /\ \E r \in Runs : run[r].skippedCount > 0

(***************************************************************************)
(* SpecRun: one worker run after another over a registry of two assets,    *)
(* every step of the run taken sooner or later: the goroutine is           *)
(* scheduled, the HTTP client has a timeout and every statement returns.   *)
(***************************************************************************)
InitRun ==
  /\ spl = {SplRow("Sym", m) : m \in Mints}
  /\ holder = {}
  /\ now = 0
  /\ run = [r \in Runs |-> IdleRun]
  /\ req = IdleReq
  /\ resp = NoResp
  /\ last = NoLast
  /\ sched = NoSched
  /\ client = [c \in Clients |-> IdleClient]

NextRun ==
  \/ WorkerStep(1)
  \/ WorkerSkip(1)
  \/ FetchOk(1, Ledger)
  \/ Commit(1)

SpecRun == InitRun /\ [][NextRun]_vars /\ WF_vars(NextRun)

\* C36: a run that has begun ends; until then its list of assets stays as
\* enumerated, its position in the list never goes back, and it moves on by
\* one when, and only when, an asset ends, committed or not: each asset of
\* the list is processed at most once.
C36_RunTerminates ==
  /\ \A r \in Runs : (run[r].pc # "idle") ~> (run[r].pc = "idle")
  /\ [][\A r \in Runs :
          (run[r].pc # "idle" /\ run'[r].pc # "idle")
          => /\ run'[r].mints = run[r].mints
             /\ run'[r].i =
                  IF run[r].pc \in {"fetching", "tx"} /\ run'[r].pc = "loop"
                  THEN run[r].i + 1 ELSE run[r].i
             /\ run'[r].pc = "fetching" => run[r].pc = "loop"]_vars

\* The run is through a list of two assets, the last of which failed after
\* rows of the other had been committed.
C36_Witness ==
  /\ run[1].pc = "loop" /\ Len(run[1].mints) = 2 /\ run[1].i = 3
  /\ run[1].outcome = "fetchFailed" /\ holder # {}

====
